---- MODULE Spec2Model ----
(***************************************************************************)
(* The C FFI value codec (bindings/c/src/value.rs) and the style accessor  *)
(* surface (bindings/c/src/style.rs) of taffy's C bindings.                *)
(*                                                                         *)
(* State: one core::Style object reached through a raw style pointer, the  *)
(* style as it was before the last call, the last call and what it         *)
(* returned.                                                               *)
(***************************************************************************)
EXTENDS Integers, FiniteSets, Sequences, TLC

VARIABLES style, prev, call, ret

vars == <<style, prev, call, ret>>

\* call and ret between two calls: no call in progress, nothing returned
Idle == [op |-> "idle"]
NoReturn == [none |-> TRUE]

(***************************************************************************)
(* f32.  A value is finite (an integer stands for it), an infinity with    *)
(* its sign, or NaN.  Payloads are only ever copied, tested with           *)
(* is_finite() and compared with 0.0, so these classes are all the code    *)
(* can tell apart.                                                         *)
(***************************************************************************)
Fin(x) == [cls |-> "fin", num |-> x]
NaN == [cls |-> "nan", num |-> 0]
PosInf == [cls |-> "inf", num |-> 1]
NegInf == [cls |-> "inf", num |-> -1]

FiniteVals == {-1, 0, 1}
F32 == {Fin(x) : x \in FiniteVals} \cup {NaN, PosInf, NegInf}

\* f32::is_finite
is_finite(x) == x.cls = "fin"

\* x > 0.0 on f32: false for NaN, true for +infinity
gt_zero(x) == \/ x.cls = "fin" /\ x.num > 0
              \/ x.cls = "inf" /\ x.num > 0

\* Option<f32>
None == [some |-> FALSE]
Some(x) == [some |-> TRUE, unwrap |-> x]

(***************************************************************************)
(* Native dimension types (taffy::prelude): a tag and, for Length and      *)
(* Percent, the f32 payload.                                               *)
(***************************************************************************)
Length(x) == [tag |-> "Length", value |-> x]
Percent(x) == [tag |-> "Percent", value |-> x]
Auto == [tag |-> "Auto"]

NativeTypes == {"LengthPercentage", "LengthPercentageAuto", "Dimension"}

LengthPercentage == {Length(x) : x \in F32} \cup {Percent(x) : x \in F32}
LengthPercentageAuto == LengthPercentage \cup {Auto}
Dimension == LengthPercentage \cup {Auto}

Natives(ty) == IF ty = "LengthPercentage" THEN LengthPercentage
               ELSE IF ty = "LengthPercentageAuto" THEN LengthPercentageAuto
               ELSE Dimension

\* Result<T, TaffyReturnCode>
Ok(v) == [ok |-> TRUE, val |-> v]
Err(e) == [ok |-> FALSE, err |-> e]

(***************************************************************************)
(* Wire value types (value.rs).                                            *)
(***************************************************************************)
TaffyEdge == {"Top", "Bottom", "Left", "Right", "Vertical", "Horizontal", "All"}

TaffyUnit == {"None", "Length", "Percent", "MinContent", "MaxContent",
              "FitContentPx", "FitContentPercent", "Auto", "Fr"}

\* TaffyDimension::from_raw
TaffyDimension_from_raw(unit, value) == [value |-> value, unit |-> unit]

\* every TaffyDimension a caller can pass
TaffyDimension == {TaffyDimension_from_raw(u, v) : u \in TaffyUnit, v \in F32}

\* <TaffyDimension as TaffyFFIDefault>::default
TaffyDimension_default == [value |-> Fin(0), unit |-> "None"]

(***************************************************************************)
(* Variant codec (value.rs): native -> wire.                               *)
(***************************************************************************)
TaffyDimension_from_LengthPercentage(value) ==
    CASE value.tag = "Length" -> [value |-> value.value, unit |-> "Length"]
      [] value.tag = "Percent" -> [value |-> value.value, unit |-> "Percent"]

\* a faulty encoder, to compare against: Auto is given the unit None
TaffyDimension_from_LengthPercentageAuto_AutoAsNone(value) ==
    CASE value.tag = "Length" -> [value |-> value.value, unit |-> "Length"]
      [] value.tag = "Percent" -> [value |-> value.value, unit |-> "Percent"]
      [] value.tag = "Auto" -> [value |-> Fin(0), unit |-> "None"]

TaffyDimension_from_LengthPercentageAuto(value) ==
    CASE value.tag = "Length" -> [value |-> value.value, unit |-> "Length"]
      [] value.tag = "Percent" -> [value |-> value.value, unit |-> "Percent"]
      [] value.tag = "Auto" -> [value |-> Fin(0), unit |-> "Auto"]

\* a faulty encoder, to compare against: Percent is given the unit of Length
TaffyDimension_from_Dimension_PercentAsLength(value) ==
    CASE value.tag = "Length" -> [value |-> value.value, unit |-> "Length"]
      [] value.tag = "Percent" -> [value |-> value.value, unit |-> "Length"]
      [] value.tag = "Auto" -> [value |-> Fin(0), unit |-> "Auto"]

TaffyDimension_from_Dimension(value) ==
    CASE value.tag = "Length" -> [value |-> value.value, unit |-> "Length"]
      [] value.tag = "Percent" -> [value |-> value.value, unit |-> "Percent"]
      [] value.tag = "Auto" -> [value |-> Fin(0), unit |-> "Auto"]

(***************************************************************************)
(* Variant codec (value.rs): wire -> native.                               *)
(***************************************************************************)
\* a faulty decoder, to compare against: MinContent is reported with the code
\* of MaxContent
LengthPercentage_try_from_MinAsMax(value) ==
    CASE value.unit = "Length" -> Ok(Length(value.value))
      [] value.unit = "Percent" -> Ok(Percent(value.value))
      [] value.unit = "None" -> Err("InvalidNone")
      [] value.unit = "Auto" -> Err("InvalidAuto")
      [] value.unit = "MinContent" -> Err("InvalidMaxContent")
      [] value.unit = "MaxContent" -> Err("InvalidMaxContent")
      [] value.unit = "FitContentPx" -> Err("InvalidFitContentPx")
      [] value.unit = "FitContentPercent" -> Err("InvalidFitContentPercent")
      [] value.unit = "Fr" -> Err("InvalidFr")

\* a faulty decoder, to compare against: the unit Auto is let through as a
\* zero length
LengthPercentage_try_from_AcceptsAuto(value) ==
    CASE value.unit = "Length" -> Ok(Length(value.value))
      [] value.unit = "Percent" -> Ok(Percent(value.value))
      [] value.unit = "None" -> Err("InvalidNone")
      [] value.unit = "Auto" -> Ok(Length(Fin(0)))
      [] value.unit = "MinContent" -> Err("InvalidMinContent")
      [] value.unit = "MaxContent" -> Err("InvalidMaxContent")
      [] value.unit = "FitContentPx" -> Err("InvalidFitContentPx")
      [] value.unit = "FitContentPercent" -> Err("InvalidFitContentPercent")
      [] value.unit = "Fr" -> Err("InvalidFr")

LengthPercentage_try_from(value) ==
    CASE value.unit = "Length" -> Ok(Length(value.value))
      [] value.unit = "Percent" -> Ok(Percent(value.value))
      [] value.unit = "None" -> Err("InvalidNone")
      [] value.unit = "Auto" -> Err("InvalidAuto")
      [] value.unit = "MinContent" -> Err("InvalidMinContent")
      [] value.unit = "MaxContent" -> Err("InvalidMaxContent")
      [] value.unit = "FitContentPx" -> Err("InvalidFitContentPx")
      [] value.unit = "FitContentPercent" -> Err("InvalidFitContentPercent")
      [] value.unit = "Fr" -> Err("InvalidFr")

\* a faulty decoder, to compare against: the payload of Auto is looked at, and
\* a payload that is not finite is rejected
LengthPercentageAuto_try_from_AutoChecksPayload(value) ==
    CASE value.unit = "Auto" -> IF is_finite(value.value) THEN Ok(Auto)
                                ELSE Err("InvalidAuto")
      [] value.unit = "Length" -> Ok(Length(value.value))
      [] value.unit = "Percent" -> Ok(Percent(value.value))
      [] value.unit = "None" -> Err("InvalidNone")
      [] value.unit = "MinContent" -> Err("InvalidMinContent")
      [] value.unit = "MaxContent" -> Err("InvalidMaxContent")
      [] value.unit = "FitContentPx" -> Err("InvalidFitContentPx")
      [] value.unit = "FitContentPercent" -> Err("InvalidFitContentPercent")
      [] value.unit = "Fr" -> Err("InvalidFr")

\* a faulty decoder, to compare against: the unit Percent is decoded as a Length
LengthPercentageAuto_try_from_PercentAsLength(value) ==
    CASE value.unit = "Auto" -> Ok(Auto)
      [] value.unit = "Length" -> Ok(Length(value.value))
      [] value.unit = "Percent" -> Ok(Length(value.value))
      [] value.unit = "None" -> Err("InvalidNone")
      [] value.unit = "MinContent" -> Err("InvalidMinContent")
      [] value.unit = "MaxContent" -> Err("InvalidMaxContent")
      [] value.unit = "FitContentPx" -> Err("InvalidFitContentPx")
      [] value.unit = "FitContentPercent" -> Err("InvalidFitContentPercent")
      [] value.unit = "Fr" -> Err("InvalidFr")

LengthPercentageAuto_try_from(value) ==
    CASE value.unit = "Auto" -> Ok(Auto)
      [] value.unit = "Length" -> Ok(Length(value.value))
      [] value.unit = "Percent" -> Ok(Percent(value.value))
      [] value.unit = "None" -> Err("InvalidNone")
      [] value.unit = "MinContent" -> Err("InvalidMinContent")
      [] value.unit = "MaxContent" -> Err("InvalidMaxContent")
      [] value.unit = "FitContentPx" -> Err("InvalidFitContentPx")
      [] value.unit = "FitContentPercent" -> Err("InvalidFitContentPercent")
      [] value.unit = "Fr" -> Err("InvalidFr")

\* a faulty decoder, to compare against: the unit Auto is rejected
Dimension_try_from_RejectsAuto(value) ==
    CASE value.unit = "Auto" -> Err("InvalidAuto")
      [] value.unit = "Length" -> Ok(Length(value.value))
      [] value.unit = "Percent" -> Ok(Percent(value.value))
      [] value.unit = "None" -> Err("InvalidNone")
      [] value.unit = "MinContent" -> Err("InvalidMinContent")
      [] value.unit = "MaxContent" -> Err("InvalidMaxContent")
      [] value.unit = "FitContentPx" -> Err("InvalidFitContentPx")
      [] value.unit = "FitContentPercent" -> Err("InvalidFitContentPercent")
      [] value.unit = "Fr" -> Err("InvalidFr")

Dimension_try_from(value) ==
    CASE value.unit = "Auto" -> Ok(Auto)
      [] value.unit = "Length" -> Ok(Length(value.value))
      [] value.unit = "Percent" -> Ok(Percent(value.value))
      [] value.unit = "None" -> Err("InvalidNone")
      [] value.unit = "MinContent" -> Err("InvalidMinContent")
      [] value.unit = "MaxContent" -> Err("InvalidMaxContent")
      [] value.unit = "FitContentPx" -> Err("InvalidFitContentPx")
      [] value.unit = "FitContentPercent" -> Err("InvalidFitContentPercent")
      [] value.unit = "Fr" -> Err("InvalidFr")

\* `.into()` on a native value of type ty: the From impl the type selects
into(ty, value) ==
    IF ty = "LengthPercentage" THEN TaffyDimension_from_LengthPercentage(value)
    ELSE IF ty = "LengthPercentageAuto" THEN TaffyDimension_from_LengthPercentageAuto(value)
    ELSE TaffyDimension_from_Dimension(value)

\* `.try_into()` to a native value of type ty: the TryFrom impl the type selects
try_into(ty, value) ==
    IF ty = "LengthPercentage" THEN LengthPercentage_try_from(value)
    ELSE IF ty = "LengthPercentageAuto" THEN LengthPercentageAuto_try_from(value)
    ELSE Dimension_try_from(value)

(***************************************************************************)
(* Grid placement (value.rs).  On the wire: start and end lines (i16) and  *)
(* a span (u16), zero for "not set".  Natively: core::Line<GridPlacement>, *)
(* a start and an end that are each Auto, a line index or a span.          *)
(***************************************************************************)
MaxLine == 2
MaxSpan == 2

GridLines == (0 - MaxLine) .. MaxLine
GridSpans == 0 .. MaxSpan

\* every TaffyGridPlacement a caller can pass
TaffyGridPlacement == [start : GridLines, end : GridLines, span : GridSpans]

\* <TaffyGridPlacement as TaffyFFIDefault>::default
TaffyGridPlacement_default == [start |-> 0, end |-> 0, span |-> 0]

GridAuto == [tag |-> "Auto", n |-> 0]
GridLine(n) == [tag |-> "Line", n |-> n]
GridSpan(n) == [tag |-> "Span", n |-> n]

\* core::Line<GridPlacement>::from_raw_parts(start, span_value, end): any two of
\* the three fields place the item, a zero field is not set, and the span is
\* the derived one when both lines are given.
Line_from_raw_parts(start, span_value, end) ==
    [start |-> IF start # 0 THEN GridLine(start)
               ELSE IF span_value # 0 /\ end # 0 THEN GridSpan(span_value)
               ELSE GridAuto,
     end |-> IF end # 0 THEN GridLine(end)
             ELSE IF span_value # 0 THEN GridSpan(span_value)
             ELSE GridAuto]

\* core::Line<GridPlacement>::into_raw_parts(self) -> (start, span, end)
Line_into_raw_parts(placement) ==
    << IF placement.start.tag = "Line" THEN placement.start.n ELSE 0,
       IF placement.start.tag = "Span" THEN placement.start.n
       ELSE IF placement.end.tag = "Span" THEN placement.end.n
       ELSE 0,
       IF placement.end.tag = "Line" THEN placement.end.n ELSE 0 >>

\* a faulty conversion, to compare against: end and span change places
Line_from_TaffyGridPlacement_Swapped(placement) ==
    Line_from_raw_parts(placement.start, placement.end, placement.span)

\* impl From<TaffyGridPlacement> for core::Line<core::GridPlacement>
Line_from_TaffyGridPlacement(placement) ==
    Line_from_raw_parts(placement.start, placement.span, placement.end)

\* impl From<core::Line<core::GridPlacement>> for TaffyGridPlacement
TaffyGridPlacement_from_Line(placement) ==
    LET parts == Line_into_raw_parts(placement)
        start == parts[1]
        span == parts[2]
        end == parts[3]
    IN  [start |-> start, end |-> end, span |-> span]

(***************************************************************************)
(* Result envelopes (value.rs): a return code and a value, built either    *)
(* from a value or from a return code.                                     *)
(***************************************************************************)
\* the values a field of a TaffyLayout takes here
LayoutVals == {Fin(0), Fin(1)}

TaffyLayout ==
    [x : LayoutVals, y : LayoutVals, width : LayoutVals, height : LayoutVals,
     content_width : LayoutVals, content_height : LayoutVals,
     border_left : LayoutVals, border_right : LayoutVals,
     border_top : LayoutVals, border_bottom : LayoutVals]

\* <TaffyLayout as TaffyFFIDefault>::default
TaffyLayout_default ==
    [x |-> Fin(0), y |-> Fin(0), width |-> Fin(0), height |-> Fin(0),
     content_width |-> Fin(0), content_height |-> Fin(0),
     border_left |-> Fin(0), border_right |-> Fin(0),
     border_top |-> Fin(0), border_bottom |-> Fin(0)]

MaxNodeId == 3

\* TaffyNodeId, and TaffyNodeId::default()
TaffyNodeId == 0 .. MaxNodeId
TaffyNodeId_default == 0

\* std::ptr::null_mut() as a TaffyStyleMutRef
null_mut == "null"

\* the return codes the conversions and the accessors produce
TaffyReturnCode ==
    {"Ok", "NullStylePointer", "InvalidNone", "InvalidAuto", "InvalidMinContent",
     "InvalidMaxContent", "InvalidFitContentPx", "InvalidFitContentPercent",
     "InvalidFr"}

TaffyResult_TaffyLayout_from_value(value) ==
    [value |-> value, return_code |-> "Ok"]

TaffyResult_TaffyLayout_from_return_code(return_code) ==
    [value |-> [x |-> Fin(0), y |-> Fin(0), width |-> Fin(0), height |-> Fin(0),
                content_width |-> Fin(0), content_height |-> Fin(0),
                border_left |-> Fin(0), border_right |-> Fin(0),
                border_top |-> Fin(0), border_bottom |-> Fin(0)],
     return_code |-> return_code]

TaffyResult_TaffyNodeId_from_value(value) ==
    [value |-> value, return_code |-> "Ok"]

\* a faulty envelope, to compare against: the return code is dropped and the
\* envelope says Ok
TaffyResult_TaffyNodeId_from_return_code_AlwaysOk(return_code) ==
    [value |-> TaffyNodeId_default, return_code |-> "Ok"]

TaffyResult_TaffyNodeId_from_return_code(return_code) ==
    [value |-> TaffyNodeId_default, return_code |-> return_code]

TaffyResult_TaffyStyleMutRef_from_value(value) ==
    [value |-> value, return_code |-> "Ok"]

TaffyResult_TaffyStyleMutRef_from_return_code(return_code) ==
    [value |-> null_mut, return_code |-> return_code]

(***************************************************************************)
(* The style object (core::Style) behind a raw style pointer: the fields   *)
(* the accessors of style.rs read and write, with the native type of each  *)
(* dimension field.                                                        *)
(***************************************************************************)
\* core::AlignContent (also JustifyContent) and core::AlignItems (also AlignSelf,
\* JustifyItems, JustifySelf): the variants in the order of their declaration
AlignContent == <<"Start", "End", "FlexStart", "FlexEnd", "Center", "Stretch",
                  "SpaceBetween", "SpaceEvenly", "SpaceAround">>
AlignItems == <<"Start", "End", "FlexStart", "FlexEnd", "Center", "Baseline", "Stretch">>

\* v as i32: the discriminant of a variant of a fieldless enum, its position
\* in the declaration counted from 0
as_i32(enum, v) == (CHOOSE i \in 1 .. Len(enum) : enum[i] = v) - 1

\* TaffyAlignContent, TaffyAlignItems: the wire enums, Normal for "not set"
TaffyAlignContent == {"Normal"} \cup {AlignContent[i] : i \in 1 .. Len(AlignContent)}
TaffyAlignItems == {"Normal"} \cup {AlignItems[i] : i \in 1 .. Len(AlignItems)}

\* From<TaffyAlignContent> for Option<core::AlignContent>, and the same for
\* TaffyAlignItems
Option_from_TaffyAlign(value) == IF value = "Normal" THEN None ELSE Some(value)

AlignContentProps == {"align_content", "justify_content"}
AlignItemsProps == {"align_items", "align_self", "justify_items", "justify_self"}

\* the fields that have an optional alignment getter and setter
AlignProps == AlignContentProps \cup AlignItemsProps

\* the enum of an alignment field, and the wire enum its setter takes
AlignEnum(prop) == IF prop \in AlignContentProps THEN AlignContent ELSE AlignItems
TaffyAlign(prop) == IF prop \in AlignContentProps THEN TaffyAlignContent ELSE TaffyAlignItems

SizeProps == {"size.width", "size.height", "min_size.width", "min_size.height",
              "max_size.width", "max_size.height", "flex_basis"}
InsetProps == {"inset.top", "inset.bottom", "inset.left", "inset.right"}
MarginProps == {"margin.top", "margin.bottom", "margin.left", "margin.right"}
PaddingProps == {"padding.top", "padding.bottom", "padding.left", "padding.right"}
BorderProps == {"border.top", "border.bottom", "border.left", "border.right"}
GapProps == {"gap.width", "gap.height"}

\* the fields that have a TaffyDimension getter and setter
DimProps == SizeProps \cup InsetProps \cup MarginProps \cup PaddingProps
            \cup BorderProps \cup GapProps

GridProps == {"grid_column", "grid_row"}

StyleFields == DimProps \cup GridProps \cup {"aspect_ratio"} \cup AlignProps

\* the declared type of a dimension field of core::Style
PropType(prop) ==
    IF prop \in SizeProps THEN "Dimension"
    ELSE IF prop \in InsetProps \cup MarginProps THEN "LengthPercentageAuto"
    ELSE "LengthPercentage"

\* core::Style::DEFAULT
StyleDefault ==
    [f \in StyleFields |->
        IF f \in SizeProps \cup InsetProps THEN Auto
        ELSE IF f \in DimProps THEN Length(Fin(0))
        ELSE IF f \in GridProps THEN [start |-> GridAuto, end |-> GridAuto]
        ELSE None]

\* TaffyStyleConstRef / TaffyStyleMutRef: the null pointer, or a pointer to the style
NULL == "null"
StylePtr == "style"
Handles == {NULL, StylePtr}

\* the TaffyReturnCode of a null style pointer
NullStylePointer == "NullStylePointer"

\* debug_assert_non_null!: whether the guard lets the call through; when it
\* does not, the call returns the failure default of its return type at once
debug_assert_non_null(raw_ptr) == raw_ptr # NULL

\* What a call did: the style it left and the value it returned.
Outcome(s, r) == [style |-> s, ret |-> r]

\* get_style!: the guard, then the block's value converted for the caller
get_style(raw_style_ptr, return_value, ffi_default) ==
    IF ~debug_assert_non_null(raw_style_ptr) THEN Outcome(style, ffi_default)
    ELSE Outcome(style, return_value)

\* with_style_mut!: the guard, then the block, which either returns early with
\* a code (Err) or runs to its end and leaves a style (Ok); then Ok
with_style_mut(raw_style_ptr, block) ==
    IF ~debug_assert_non_null(raw_style_ptr) THEN Outcome(style, NullStylePointer)
    ELSE IF block.ok THEN Outcome(block.val, "Ok")
    ELSE Outcome(style, block.err)

\* try_from_value!: the converted value, or the early return of the error
try_from_value(ty, value) == try_into(ty, value)

\* a faulty try_from_raw!, to compare against: the payload is dropped
try_from_raw_DropsPayload(ty, unit, value) ==
    try_from_value(ty, TaffyDimension_from_raw(unit, Fin(0)))

\* try_from_raw!
try_from_raw(ty, unit, value) == try_from_value(ty, TaffyDimension_from_raw(unit, value))

\* a faulty getter, to compare against: the getter of size.height reads
\* size.width
style_value_prop_getter_HeightReadsWidth(prop, raw_style) ==
    get_style(raw_style,
              into(PropType(prop),
                   IF prop = "size.height" THEN style["size.width"] ELSE style[prop]),
              TaffyDimension_default)

\* style_value_prop_getter!, instantiated for the field prop
style_value_prop_getter(prop, raw_style) ==
    get_style(raw_style, into(PropType(prop), style[prop]), TaffyDimension_default)

\* a faulty setter, to compare against: the field is reset before the value is
\* converted, so a rejected unit still changes it
style_value_prop_setter_ResetFirst(prop, raw_style, value, unit) ==
    IF ~debug_assert_non_null(raw_style) THEN Outcome(style, NullStylePointer)
    ELSE LET converted == try_from_raw(PropType(prop), unit, value)
         IN  IF converted.ok
             THEN Outcome([style EXCEPT ![prop] = converted.val], "Ok")
             ELSE Outcome([style EXCEPT ![prop] = StyleDefault[prop]], converted.err)

\* a faulty setter, to compare against: the setter of size.width assigns
\* size.height as well
style_value_prop_setter_WidthWritesHeight(prop, raw_style, value, unit) ==
    with_style_mut(raw_style,
        LET converted == try_from_raw(PropType(prop), unit, value)
        IN  IF ~converted.ok THEN Err(converted.err)
            ELSE IF prop = "size.width"
                 THEN Ok([style EXCEPT ![prop] = converted.val,
                                       !["size.height"] = converted.val])
            ELSE Ok([style EXCEPT ![prop] = converted.val]))

\* style_value_prop_setter!, instantiated for the field prop: the right-hand
\* side is converted first and the field is assigned only if that succeeded
style_value_prop_setter(prop, raw_style, value, unit) ==
    with_style_mut(raw_style,
        LET converted == try_from_raw(PropType(prop), unit, value)
        IN  IF converted.ok THEN Ok([style EXCEPT ![prop] = converted.val])
            ELSE Err(converted.err))

TaffyStyle_GetAspectRatio(raw_style) ==
    get_style(raw_style,
              IF style["aspect_ratio"].some THEN style["aspect_ratio"].unwrap ELSE NaN,
              Fin(0))

\* a faulty setter, to compare against: the payload is not tested for finiteness
TaffyStyle_SetAspectRatio_NoFiniteTest(raw_style, value) ==
    with_style_mut(raw_style,
        IF gt_zero(value)
        THEN Ok([style EXCEPT !["aspect_ratio"] = Some(value)])
        ELSE Ok([style EXCEPT !["aspect_ratio"] = None]))

TaffyStyle_SetAspectRatio(raw_style, value) ==
    with_style_mut(raw_style,
        IF is_finite(value) /\ gt_zero(value)
        THEN Ok([style EXCEPT !["aspect_ratio"] = Some(value)])
        ELSE Ok([style EXCEPT !["aspect_ratio"] = None]))

\* faulty assignments, to compare against: All leaves the right edge out
SetMarginEdges_AllButRight(edge, value) ==
    CASE edge = "Top" -> [style EXCEPT !["margin.top"] = value]
      [] edge = "Bottom" -> [style EXCEPT !["margin.bottom"] = value]
      [] edge = "Left" -> [style EXCEPT !["margin.left"] = value]
      [] edge = "Right" -> [style EXCEPT !["margin.right"] = value]
      [] edge = "Vertical" -> [style EXCEPT !["margin.top"] = value,
                                            !["margin.bottom"] = value]
      [] edge = "Horizontal" -> [style EXCEPT !["margin.left"] = value,
                                              !["margin.right"] = value]
      [] edge = "All" -> [style EXCEPT !["margin.top"] = value,
                                       !["margin.bottom"] = value,
                                       !["margin.left"] = value]

\* faulty assignments, to compare against: Vertical assigns the bottom edge
\* from the top edge as it was before the call
SetMarginEdges_VerticalCopiesTop(edge, value) ==
    CASE edge = "Top" -> [style EXCEPT !["margin.top"] = value]
      [] edge = "Bottom" -> [style EXCEPT !["margin.bottom"] = value]
      [] edge = "Left" -> [style EXCEPT !["margin.left"] = value]
      [] edge = "Right" -> [style EXCEPT !["margin.right"] = value]
      [] edge = "Vertical" -> [style EXCEPT !["margin.top"] = value,
                                            !["margin.bottom"] = style["margin.top"]]
      [] edge = "Horizontal" -> [style EXCEPT !["margin.left"] = value,
                                              !["margin.right"] = value]
      [] edge = "All" -> [style EXCEPT !["margin.top"] = value,
                                       !["margin.bottom"] = value,
                                       !["margin.left"] = value,
                                       !["margin.right"] = value]

\* the assignments of TaffyStyle_SetMargin's match on the edge
SetMarginEdges(edge, value) ==
    CASE edge = "Top" -> [style EXCEPT !["margin.top"] = value]
      [] edge = "Bottom" -> [style EXCEPT !["margin.bottom"] = value]
      [] edge = "Left" -> [style EXCEPT !["margin.left"] = value]
      [] edge = "Right" -> [style EXCEPT !["margin.right"] = value]
      [] edge = "Vertical" -> [style EXCEPT !["margin.top"] = value,
                                            !["margin.bottom"] = value]
      [] edge = "Horizontal" -> [style EXCEPT !["margin.left"] = value,
                                              !["margin.right"] = value]
      [] edge = "All" -> [style EXCEPT !["margin.top"] = value,
                                       !["margin.bottom"] = value,
                                       !["margin.left"] = value,
                                       !["margin.right"] = value]

\* TaffyStyle_SetMargin: the value is converted (and a rejected unit returned)
\* before with_style_mut! checks the pointer
TaffyStyle_SetMargin(raw_style, edge, value) ==
    LET converted == try_from_value("LengthPercentageAuto", value)
    IN  IF ~converted.ok THEN Outcome(style, converted.err)
        ELSE with_style_mut(raw_style, Ok(SetMarginEdges(edge, converted.val)))

\* a faulty getter, to compare against: the variants are counted from 1
option_enum_prop_getter_CountsFromOne(prop, raw_style) ==
    get_style(raw_style,
              IF style[prop].some THEN as_i32(AlignEnum(prop), style[prop].unwrap) + 1 ELSE 0,
              0)

\* option_enum_prop_getter!, instantiated for the field prop:
\* TaffyStyle_GetAlignContent .. TaffyStyle_GetJustifySelf
option_enum_prop_getter(prop, raw_style) ==
    get_style(raw_style,
              IF style[prop].some THEN as_i32(AlignEnum(prop), style[prop].unwrap) ELSE 0,
              0)

\* TaffyStyle_SetAlignContent .. TaffyStyle_SetJustifySelf
enum_prop_setter(prop, raw_style, value) ==
    with_style_mut(raw_style, Ok([style EXCEPT ![prop] = Option_from_TaffyAlign(value)]))

\* TaffyStyle_GetGridColumn, TaffyStyle_GetGridRow
TaffyStyle_GetGrid(prop, raw_style) ==
    get_style(raw_style, TaffyGridPlacement_from_Line(style[prop]),
              TaffyGridPlacement_default)

\* a faulty setter, to compare against: a triple with all three fields set is
\* not stored
TaffyStyle_SetGrid_DropsFullTriple(prop, raw_style, placement) ==
    with_style_mut(raw_style,
        IF placement.start # 0 /\ placement.end # 0 /\ placement.span # 0
        THEN Ok(style)
        ELSE Ok([style EXCEPT ![prop] = Line_from_TaffyGridPlacement(placement)]))

\* TaffyStyle_SetGridColumn, TaffyStyle_SetGridRow
TaffyStyle_SetGrid(prop, raw_style, placement) ==
    with_style_mut(raw_style,
        Ok([style EXCEPT ![prop] = Line_from_TaffyGridPlacement(placement)]))

(***************************************************************************)
(* The host's calls.  The layer is request/response: the host calls one    *)
(* entry point on the style (the action records the call, the style before *)
(* it and the value returned), takes the result, and is then free to make  *)
(* the next call.                                                          *)
(*                                                                         *)
(* The host works on one group of fields of a style at a time: a call that *)
(* may write is made while every field outside its group still has its     *)
(* default value.  Reads are made in every state.                          *)
(***************************************************************************)

\* the fields the host works on together with prop: the four margin edges, which
\* TaffyStyle_SetMargin writes together, and every other field on its own
Group(prop) == IF prop \in MarginProps THEN MarginProps ELSE {prop}

OthersDefault(props) == \A f \in StyleFields \ props : style[f] = StyleDefault[f]

\* the payloads the host passes for a margin edge, and for any other field
MarginPayloads == {Fin(1), NaN}
Payloads(prop) == IF prop \in MarginProps THEN MarginPayloads ELSE F32

\* the value a call returned, under the name of its C return type
Returned(type, value) ==
    CASE type = "TaffyReturnCode" -> [code |-> value]
      [] type = "TaffyDimension" -> [dimension |-> value]
      [] type = "f32" -> [f32 |-> value]
      [] type = "i32" -> [i32 |-> value]
      [] type = "TaffyGridPlacement" -> [placement |-> value]
      [] type = "Result" -> [result |-> value]
      [] type = "Line" -> [line |-> value]
      [] type = "TaffyResult_TaffyLayout" -> [layout_result |-> value]
      [] type = "TaffyResult_TaffyNodeId" -> [node_id_result |-> value]
      [] type = "TaffyResult_TaffyStyleMutRef" -> [style_result |-> value]

Do(c, type, outcome) ==
    /\ style' = outcome.style
    /\ prev' = style
    /\ call' = c
    /\ ret' = Returned(type, outcome.ret)

GetDimension ==
    /\ call = Idle
    /\ \E raw_style \in Handles, prop \in DimProps :
        Do([op |-> "style_value_prop_getter", prop |-> prop, raw_style |-> raw_style],
           "TaffyDimension",
           style_value_prop_getter(prop, raw_style))

SetDimension ==
    /\ call = Idle
    /\ \E prop \in DimProps :
        /\ OthersDefault(Group(prop))
        /\ \E raw_style \in Handles, unit \in TaffyUnit, value \in Payloads(prop) :
            Do([op |-> "style_value_prop_setter", value |-> value, unit |-> unit,
                prop |-> prop, raw_style |-> raw_style], "TaffyReturnCode",
               style_value_prop_setter(prop, raw_style, value, unit))

GetAspectRatio ==
    /\ call = Idle
    /\ \E raw_style \in Handles :
        Do([op |-> "TaffyStyle_GetAspectRatio", raw_style |-> raw_style], "f32",
           TaffyStyle_GetAspectRatio(raw_style))

SetAspectRatio ==
    /\ call = Idle
    /\ OthersDefault({"aspect_ratio"})
    /\ \E raw_style \in Handles, value \in F32 :
        Do([op |-> "TaffyStyle_SetAspectRatio", value |-> value,
            raw_style |-> raw_style], "TaffyReturnCode",
           TaffyStyle_SetAspectRatio(raw_style, value))

SetMargin ==
    /\ call = Idle
    /\ OthersDefault(MarginProps)
    /\ \E raw_style \in Handles, edge \in TaffyEdge, unit \in TaffyUnit,
          value \in MarginPayloads :
        Do([op |-> "TaffyStyle_SetMargin", value |-> value, unit |-> unit,
            raw_style |-> raw_style, edge |-> edge], "TaffyReturnCode",
           TaffyStyle_SetMargin(raw_style, edge, TaffyDimension_from_raw(unit, value)))

GetGrid ==
    /\ call = Idle
    /\ \E raw_style \in Handles, prop \in GridProps :
        Do([op |-> "TaffyStyle_GetGrid", prop |-> prop, raw_style |-> raw_style],
           "TaffyGridPlacement",
           TaffyStyle_GetGrid(prop, raw_style))

SetGrid ==
    /\ call = Idle
    /\ \E prop \in GridProps :
        /\ OthersDefault({prop})
        /\ \E raw_style \in Handles, placement \in TaffyGridPlacement :
            Do([op |-> "TaffyStyle_SetGrid", placement |-> placement, prop |-> prop,
                raw_style |-> raw_style], "TaffyReturnCode",
               TaffyStyle_SetGrid(prop, raw_style, placement))

GetAlign ==
    /\ call = Idle
    /\ \E raw_style \in Handles, prop \in AlignProps :
        Do([op |-> "option_enum_prop_getter", prop |-> prop, raw_style |-> raw_style],
           "i32",
           option_enum_prop_getter(prop, raw_style))

SetAlign ==
    /\ call = Idle
    /\ \E prop \in AlignProps :
        /\ OthersDefault({prop})
        /\ \E raw_style \in Handles, value \in TaffyAlign(prop) :
            Do([op |-> "enum_prop_setter", value |-> value, prop |-> prop,
                raw_style |-> raw_style], "TaffyReturnCode",
               enum_prop_setter(prop, raw_style, value))

\* the host has taken the result: the call's records do not outlive the call
Return ==
    /\ call # Idle
    /\ call' = Idle
    /\ ret' = NoReturn
    /\ prev' = style
    /\ UNCHANGED style

Init ==
    /\ style = StyleDefault
    /\ prev = StyleDefault
    /\ call = Idle
    /\ ret = NoReturn

Next ==
    \/ GetDimension
    \/ SetDimension
    \/ GetAspectRatio
    \/ SetAspectRatio
    \/ SetMargin
    \/ GetGrid
    \/ SetGrid
    \/ GetAlign
    \/ SetAlign
    \/ Return

Spec == Init /\ [][Next]_vars

(***************************************************************************)
(* The codec on its own: the conversions of value.rs applied to every      *)
(* value of their argument type, with no style involved.                   *)
(***************************************************************************)
\* native -> wire
EncodeDimension ==
    \E ty \in NativeTypes : \E value \in Natives(ty) :
        /\ call' = [op |-> "encode", ty |-> ty, native |-> value]
        /\ ret' = Returned("TaffyDimension", into(ty, value))
        /\ UNCHANGED <<style, prev>>

\* wire -> native
DecodeDimension ==
    \E ty \in NativeTypes, value \in TaffyDimension :
        /\ call' = [op |-> "decode", ty |-> ty, wire |-> value]
        /\ ret' = Returned("Result", try_into(ty, value))
        /\ UNCHANGED <<style, prev>>

\* native -> wire -> native
RoundTripDimension ==
    \E ty \in NativeTypes : \E value \in Natives(ty) :
        /\ call' = [op |-> "roundtrip", ty |-> ty, native |-> value]
        /\ ret' = Returned("Result", try_into(ty, into(ty, value)))
        /\ UNCHANGED <<style, prev>>

\* wire -> native
DecodeGridPlacement ==
    \E placement \in TaffyGridPlacement :
        /\ call' = [op |-> "grid_decode", wire |-> placement]
        /\ ret' = Returned("Line", Line_from_TaffyGridPlacement(placement))
        /\ UNCHANGED <<style, prev>>

\* wire -> native -> wire
RoundTripGridPlacement ==
    \E placement \in TaffyGridPlacement :
        /\ call' = [op |-> "grid_roundtrip", wire |-> placement]
        /\ ret' = Returned("TaffyGridPlacement",
                           TaffyGridPlacement_from_Line(Line_from_TaffyGridPlacement(placement)))
        /\ UNCHANGED <<style, prev>>

NextCodec ==
    \/ EncodeDimension
    \/ DecodeDimension
    \/ RoundTripDimension
    \/ DecodeGridPlacement
    \/ RoundTripGridPlacement

SpecCodec == Init /\ [][NextCodec]_vars

(***************************************************************************)
(* The result envelopes on their own: each constructor of value.rs applied *)
(* to every value, and to every return code.                               *)
(***************************************************************************)
LayoutFromValue ==
    \E value \in TaffyLayout :
        /\ call' = [op |-> "from_value", ty |-> "TaffyLayout", layout |-> value]
        /\ ret' = Returned("TaffyResult_TaffyLayout",
                           TaffyResult_TaffyLayout_from_value(value))
        /\ UNCHANGED <<style, prev>>

LayoutFromReturnCode ==
    \E return_code \in TaffyReturnCode :
        /\ call' = [op |-> "from_return_code", ty |-> "TaffyLayout",
                    return_code |-> return_code]
        /\ ret' = Returned("TaffyResult_TaffyLayout",
                           TaffyResult_TaffyLayout_from_return_code(return_code))
        /\ UNCHANGED <<style, prev>>

NodeIdFromValue ==
    \E value \in TaffyNodeId :
        /\ call' = [op |-> "from_value", ty |-> "TaffyNodeId", node_id |-> value]
        /\ ret' = Returned("TaffyResult_TaffyNodeId",
                           TaffyResult_TaffyNodeId_from_value(value))
        /\ UNCHANGED <<style, prev>>

NodeIdFromReturnCode ==
    \E return_code \in TaffyReturnCode :
        /\ call' = [op |-> "from_return_code", ty |-> "TaffyNodeId",
                    return_code |-> return_code]
        /\ ret' = Returned("TaffyResult_TaffyNodeId",
                           TaffyResult_TaffyNodeId_from_return_code(return_code))
        /\ UNCHANGED <<style, prev>>

StyleMutRefFromValue ==
    \E value \in Handles :
        /\ call' = [op |-> "from_value", ty |-> "TaffyStyleMutRef", style_ref |-> value]
        /\ ret' = Returned("TaffyResult_TaffyStyleMutRef",
                           TaffyResult_TaffyStyleMutRef_from_value(value))
        /\ UNCHANGED <<style, prev>>

StyleMutRefFromReturnCode ==
    \E return_code \in TaffyReturnCode :
        /\ call' = [op |-> "from_return_code", ty |-> "TaffyStyleMutRef",
                    return_code |-> return_code]
        /\ ret' = Returned("TaffyResult_TaffyStyleMutRef",
                           TaffyResult_TaffyStyleMutRef_from_return_code(return_code))
        /\ UNCHANGED <<style, prev>>

NextEnvelope ==
    \/ LayoutFromValue
    \/ LayoutFromReturnCode
    \/ NodeIdFromValue
    \/ NodeIdFromReturnCode
    \/ StyleMutRefFromValue
    \/ StyleMutRefFromReturnCode

SpecEnvelope == Init /\ [][NextEnvelope]_vars

(***************************************************************************)
(* Vocabulary of the properties: what the properties expect, stated        *)
(* without the conversions they are checked against.                       *)
(***************************************************************************)
\* the units a field of the given native type accepts
AcceptingSet(ty) ==
    IF ty = "LengthPercentage" THEN {"Length", "Percent"}
    ELSE {"Length", "Percent", "Auto"}

\* the failure status that names a unit
StatusNaming(unit) ==
    CASE unit = "None" -> "InvalidNone"
      [] unit = "Auto" -> "InvalidAuto"
      [] unit = "MinContent" -> "InvalidMinContent"
      [] unit = "MaxContent" -> "InvalidMaxContent"
      [] unit = "FitContentPx" -> "InvalidFitContentPx"
      [] unit = "FitContentPercent" -> "InvalidFitContentPercent"
      [] unit = "Fr" -> "InvalidFr"
      [] OTHER -> "Ok"

TagFailures == {StatusNaming(u) : u \in TaffyUnit} \ {"Ok"}

\* the native value an accepted wire dimension stands for
ExpectedNative(unit, value) ==
    CASE unit = "Length" -> Length(value)
      [] unit = "Percent" -> Percent(value)
      [] unit = "Auto" -> Auto

\* the margin fields an edge selector names
EdgeTargets(edge) ==
    CASE edge = "Top" -> {"margin.top"}
      [] edge = "Bottom" -> {"margin.bottom"}
      [] edge = "Left" -> {"margin.left"}
      [] edge = "Right" -> {"margin.right"}
      [] edge = "Vertical" -> {"margin.top", "margin.bottom"}
      [] edge = "Horizontal" -> {"margin.left", "margin.right"}
      [] edge = "All" -> MarginProps

\* what the TaffyDimension getter of prop reads from the style s
ReadBack(s, prop) == into(PropType(prop), s[prop])

SetterOps == {"style_value_prop_setter", "TaffyStyle_SetMargin",
              "TaffyStyle_SetAspectRatio", "TaffyStyle_SetGrid"}
GetterOps == {"style_value_prop_getter", "TaffyStyle_GetAspectRatio",
              "TaffyStyle_GetGrid"}

Called(op) == call.op = op /\ call.raw_style # NULL
CalledNull == call.op \in SetterOps \cup GetterOps /\ call.raw_style = NULL

\* the units the setters of a field's class accept, class by class
ClassAccepts(prop) ==
    IF prop \in MarginProps \cup InsetProps THEN {"Length", "Percent", "Auto"}
    ELSE IF prop \in SizeProps THEN {"Length", "Percent", "Auto"}
    ELSE {"Length", "Percent"}

\* the property class of a field
Class(prop) ==
    IF prop \in MarginProps THEN "margin"
    ELSE IF prop \in PaddingProps THEN "padding"
    ELSE IF prop \in InsetProps THEN "inset"
    ELSE IF prop \in SizeProps THEN "size"
    ELSE IF prop \in BorderProps THEN "border"
    ELSE "gap"

\* the fields of the classes margin, padding, size and inset
FourClassProps == MarginProps \cup PaddingProps \cup SizeProps \cup InsetProps

\* the units the setter of a field rejects on a non-null style
RejectedBy(prop) ==
    {u \in TaffyUnit : style_value_prop_setter(prop, StylePtr, Fin(1), u).ret # "Ok"}

\* the wire record that stands for a native dimension value
WireOf(native) ==
    IF native.tag = "Auto" THEN [value |-> Fin(0), unit |-> "Auto"]
    ELSE [value |-> native.value, unit |-> native.tag]

\* the dimension fields a setter call names, when it returned Ok
SetFields(c, status) ==
    IF status # "Ok" THEN {}
    ELSE IF c.op = "style_value_prop_setter" THEN {c.prop}
    ELSE EdgeTargets(c.edge)

(***************************************************************************)
(* Properties.                                                             *)
(***************************************************************************)

\* C1: round trip.  Encoding any native value of LengthPercentage,
\* LengthPercentageAuto or Dimension and decoding the wire record at the same
\* type succeeds and gives back exactly that value.
C1_RoundTrip ==
    call.op = "roundtrip" => ret.result.ok /\ ret.result.val = call.native

C1_Witness ==
    /\ call.op = "roundtrip"
    /\ call.ty = "LengthPercentageAuto"
    /\ call.native = Percent(Fin(1))
    /\ ret.result = Ok(Percent(Fin(1)))

\* C2: context rejection.  A dimension setter called on a non-null style with
\* a unit outside the accepting set of its field returns the status that names
\* the unit, and the getter of the field reads the same value before and after.
C2_ContextRejection ==
    /\ Called("style_value_prop_setter")
         /\ call.unit \notin AcceptingSet(PropType(call.prop))
       => /\ ret.code = StatusNaming(call.unit)
          /\ ret.code # "Ok"
          /\ \A p \in DimProps : ReadBack(style, p) = ReadBack(prev, p)
    /\ Called("TaffyStyle_SetMargin")
         /\ call.unit \notin AcceptingSet("LengthPercentageAuto")
       => /\ ret.code = StatusNaming(call.unit)
          /\ ret.code # "Ok"
          /\ \A p \in DimProps : ReadBack(style, p) = ReadBack(prev, p)

C2_Witness ==
    /\ Called("style_value_prop_setter")
    /\ call.prop = "padding.top"
    /\ call.unit = "Auto"
    /\ ret.code = "InvalidAuto"
    /\ prev["padding.top"] = Percent(Fin(1))
    /\ style["padding.top"] = Percent(Fin(1))

\* C3: null-handle safety.  Every entry point called with a null style pointer
\* returns the failure default of its return type (the null-pointer status for
\* a setter, the zero-value record for a getter) and writes nothing.
C3_NullHandleSafety ==
    CalledNull =>
        /\ style = prev
        /\ call.op \in SetterOps => ret.code = NullStylePointer
        /\ call.op = "style_value_prop_getter" => ret.dimension = TaffyDimension_default
        /\ call.op = "TaffyStyle_GetAspectRatio" => ret.f32 = Fin(0)
        /\ call.op = "TaffyStyle_GetGrid" => ret.placement = TaffyGridPlacement_default

\* C4: batch edge atomicity.  TaffyStyle_SetMargin on a non-null style either
\* rejects the unit, returns a failure and leaves all four margin edges as they
\* were, or returns Ok and leaves every edge its selector names holding the
\* decoded value; never only some of the named edges.
C4_BatchEdgeAtomicity ==
    Called("TaffyStyle_SetMargin") =>
        IF call.unit \in AcceptingSet("LengthPercentageAuto")
        THEN /\ ret.code = "Ok"
             /\ \A p \in EdgeTargets(call.edge) :
                    style[p] = ExpectedNative(call.unit, call.value)
        ELSE /\ ret.code # "Ok"
             /\ \A p \in MarginProps : style[p] = prev[p]

C4_Witness ==
    /\ Called("TaffyStyle_SetMargin")
    /\ call.edge = "All"
    /\ call.unit = "Percent"
    /\ ret.code = "Ok"
    /\ \A p \in MarginProps : style[p] = Percent(Fin(1))
    /\ prev["margin.top"] = Auto
    /\ prev["margin.right"] = Length(Fin(1))

\* C5: aspect-ratio sentinel.  TaffyStyle_SetAspectRatio on a non-null style
\* returns Ok for every payload; a NaN, infinite, zero or negative payload
\* unsets the aspect ratio and the getter then returns NaN; a finite positive
\* payload is stored and the getter returns it.
C5_AspectRatioSentinel ==
    Called("TaffyStyle_SetAspectRatio") =>
        /\ ret.code = "Ok"
        /\ IF call.value.cls = "fin" /\ call.value.num > 0
           THEN /\ style["aspect_ratio"] = Some(call.value)
                /\ TaffyStyle_GetAspectRatio(StylePtr).ret = call.value
           ELSE /\ style["aspect_ratio"] = None
                /\ TaffyStyle_GetAspectRatio(StylePtr).ret = NaN

C5_Witness ==
    /\ Called("TaffyStyle_SetAspectRatio")
    /\ call.value = NegInf
    /\ prev["aspect_ratio"] = Some(Fin(1))
    /\ style["aspect_ratio"] = None
    /\ ret.code = "Ok"

\* C6: non-finite rejection.  A setter given the unit Length or Percent with a
\* NaN or infinite payload returns a failure status and leaves the style as it
\* was: the payload is never stored.
C6_NonFiniteRejection ==
    /\ call.op \in {"style_value_prop_setter", "TaffyStyle_SetMargin"}
    /\ call.raw_style # NULL
    /\ call.unit \in {"Length", "Percent"}
    /\ ~is_finite(call.value)
    => ret.code # "Ok" /\ style = prev

\* C7: guard before decode.  In every setter the null check comes before the
\* conversion of the wire value: a status that names a rejected unit is only
\* returned for a non-null style pointer, and a call with a null pointer and a
\* rejected unit returns the null-pointer status.
C7_GuardBeforeDecode ==
    call.op \in {"style_value_prop_setter", "TaffyStyle_SetMargin"} =>
        /\ ret.code \in TagFailures => call.raw_style # NULL
        /\ call.raw_style = NULL => ret.code = NullStylePointer

C9_GridSetterTotal ==
    Called("TaffyStyle_SetGrid") =>
        /\ ret.code = "Ok"
        /\ TaffyStyle_GetGrid(call.prop, StylePtr).ret =
               TaffyGridPlacement_from_Line(Line_from_raw_parts(
                   call.placement.start, call.placement.span, call.placement.end))

C9_Witness ==
    /\ Called("TaffyStyle_SetGrid")
    /\ call.prop = "grid_row"
    /\ call.placement = [start |-> 1, end |-> 2, span |-> 2]
    /\ ret.code = "Ok"
    /\ prev["grid_row"] # style["grid_row"]

\* C10: encode is total and canonical.  Every native dimension value has one
\* wire encoding: the unit is the one of its variant, the payload of Length
\* and Percent is copied unchanged, and the value of Auto is 0.
C10_EncodeCanonical ==
    call.op = "encode" =>
        /\ ret.dimension \in TaffyDimension
        /\ ret.dimension.unit = call.native.tag
        /\ call.native.tag \in {"Length", "Percent"} => ret.dimension.value = call.native.value
        /\ call.native.tag = "Auto" => ret.dimension.value = Fin(0)

C10_Witness ==
    /\ call.op = "encode"
    /\ call.ty = "Dimension"
    /\ call.native = Auto
    /\ ret.dimension = [value |-> Fin(0), unit |-> "Auto"]

\* C11: the payload of a payload-less tag is ignored.  On a field that accepts
\* Auto, a set with the unit Auto succeeds whatever the payload is, stores
\* Auto, and the getter of the field then returns the wire record (Auto, 0).
C11_AutoPayloadIgnored ==
    /\ Called("style_value_prop_setter")
    /\ call.unit = "Auto"
    /\ "Auto" \in AcceptingSet(PropType(call.prop))
    => /\ ret.code = "Ok"
       /\ style[call.prop] = Auto
       /\ style_value_prop_getter(call.prop, StylePtr).ret =
              [value |-> Fin(0), unit |-> "Auto"]

C11_Witness ==
    /\ Called("style_value_prop_setter")
    /\ call.prop = "margin.top"
    /\ call.unit = "Auto"
    /\ call.value = NaN
    /\ ret.code = "Ok"
    /\ prev["margin.top"] = Length(Fin(1))
    /\ style["margin.top"] = Auto

\* C12: result envelope.  An envelope built from a value has the code Ok and
\* carries exactly that value; an envelope built from a return code carries
\* that code and the fixed default of its type (the all-zero layout, the
\* default node id, the null style reference), whatever was built before.
C12_ResultEnvelope ==
    /\ call.op = "from_value" /\ call.ty = "TaffyLayout"
       => ret.layout_result.return_code = "Ok"
          /\ ret.layout_result.value = call.layout
    /\ call.op = "from_value" /\ call.ty = "TaffyNodeId"
       => ret.node_id_result.return_code = "Ok"
          /\ ret.node_id_result.value = call.node_id
    /\ call.op = "from_value" /\ call.ty = "TaffyStyleMutRef"
       => ret.style_result.return_code = "Ok"
          /\ ret.style_result.value = call.style_ref
    /\ call.op = "from_return_code" /\ call.ty = "TaffyLayout"
       => ret.layout_result.return_code = call.return_code
          /\ \A f \in DOMAIN ret.layout_result.value :
                 ret.layout_result.value[f] = Fin(0)
    /\ call.op = "from_return_code" /\ call.ty = "TaffyNodeId"
       => ret.node_id_result.return_code = call.return_code
          /\ ret.node_id_result.value = TaffyNodeId_default
    /\ call.op = "from_return_code" /\ call.ty = "TaffyStyleMutRef"
       => ret.style_result.return_code = call.return_code
          /\ ret.style_result.value = NULL

C12_Witness ==
    /\ call.op = "from_return_code"
    /\ call.ty = "TaffyNodeId"
    /\ call.return_code = "InvalidFr"
    /\ ret.node_id_result = [value |-> 0, return_code |-> "InvalidFr"]

\* C13: accepting sets per property class.  Margin and inset setters accept
\* exactly Length, Percent and Auto; size, min-size, max-size and flex-basis
\* setters accept exactly Length, Percent and Auto; padding, border and gap
\* setters accept exactly Length and Percent.  On a non-null style a setter
\* returns Ok if and only if the unit is in the set of its class.
C13_AcceptingSets ==
    /\ Called("style_value_prop_setter")
       => (ret.code = "Ok" <=> call.unit \in ClassAccepts(call.prop))
    /\ Called("TaffyStyle_SetMargin")
       => (ret.code = "Ok" <=> call.unit \in {"Length", "Percent", "Auto"})

C13_Witness ==
    /\ Called("style_value_prop_setter")
    /\ call.prop = "margin.left"
    /\ call.unit = "Fr"
    /\ ret.code = "InvalidFr"
    /\ style = prev

\* C14 as stated: the classes margin, padding, size and inset each reject a
\* different subset of the units, so the setter just called and the setter of
\* any field of another of these classes differ on some unit.
C14_ClassesRejectDifferent ==
    Called("style_value_prop_setter") /\ call.prop \in FourClassProps =>
        \A q \in FourClassProps :
            Class(q) # Class(call.prop) => RejectedBy(q) # RejectedBy(call.prop)

\* C14 as amended: the setters reject one of two subsets.  Margin, size and
\* inset setters reject the same units (None, MinContent, MaxContent,
\* FitContentPx, FitContentPercent, Fr); padding setters reject these and Auto,
\* and Auto is the only unit on which two of the four classes differ.
C14_TwoRejectedSubsets ==
    Called("style_value_prop_setter") /\ call.prop \in FourClassProps =>
        /\ (ret.code # "Ok") <=> (call.unit \in RejectedBy(call.prop))
        /\ \A q \in FourClassProps :
            /\ q \notin PaddingProps =>
                   RejectedBy(q) = {"None", "MinContent", "MaxContent",
                                    "FitContentPx", "FitContentPercent", "Fr"}
            /\ q \in PaddingProps =>
                   RejectedBy(q) = {"None", "MinContent", "MaxContent",
                                    "FitContentPx", "FitContentPercent", "Fr", "Auto"}

C14_Witness ==
    /\ Called("style_value_prop_setter")
    /\ call.prop = "padding.bottom"
    /\ call.unit = "Auto"
    /\ ret.code = "InvalidAuto"
    /\ "Auto" \notin RejectedBy("margin.bottom")
    /\ "Auto" \notin RejectedBy("size.height")
    /\ "Auto" \notin RejectedBy("inset.bottom")

\* C15: status codes identify the rejected tag.  A rejection never gives Ok,
\* and the code of a rejected unit is the code of another rejection, at any of
\* the three native types, exactly when the two units are the same: different
\* rejected units never share a code, and a unit has the same code at every
\* type that rejects it.
C15_StatusIdentifiesTag ==
    call.op = "decode" /\ ~ret.result.ok =>
        /\ ret.result.err # "Ok"
        /\ \A ty \in NativeTypes, u \in TaffyUnit :
               LET other == try_into(ty, TaffyDimension_from_raw(u, call.wire.value))
               IN  ~other.ok => (other.err = ret.result.err <=> u = call.wire.unit)

C15_Witness ==
    /\ call.op = "decode"
    /\ call.ty = "LengthPercentage"
    /\ call.wire.unit = "Auto"
    /\ ret.result = Err("InvalidAuto")

\* C16: getters always succeed and are pure reads.  A getter called with a
\* non-null style pointer returns the wire encoding of the current value of
\* its field, leaves every field of the style as it was, and returns the same
\* again when called a second time.
C16_GettersPure ==
    /\ Called("style_value_prop_getter")
       => /\ style = prev
          /\ ret.dimension = WireOf(prev[call.prop])
          /\ style_value_prop_getter(call.prop, StylePtr).ret = ret.dimension
    /\ Called("TaffyStyle_GetAspectRatio")
       => /\ style = prev
          /\ ret.f32 = IF prev["aspect_ratio"] = None THEN NaN
                       ELSE prev["aspect_ratio"].unwrap
          /\ TaffyStyle_GetAspectRatio(StylePtr).ret = ret.f32
    /\ Called("TaffyStyle_GetGrid")
       => /\ style = prev
          /\ ret.placement.start =
                 (IF prev[call.prop].start.tag = "Line" THEN prev[call.prop].start.n ELSE 0)
          /\ ret.placement.end =
                 (IF prev[call.prop].end.tag = "Line" THEN prev[call.prop].end.n ELSE 0)
          /\ TaffyStyle_GetGrid(call.prop, StylePtr).ret = ret.placement
    /\ Called("option_enum_prop_getter")
       => /\ style = prev
          /\ ret.i32 = IF prev[call.prop] = None THEN 0
                       ELSE as_i32(AlignEnum(call.prop), prev[call.prop].unwrap)
          /\ option_enum_prop_getter(call.prop, StylePtr).ret = ret.i32

C16_Witness ==
    /\ Called("style_value_prop_getter")
    /\ call.prop = "size.height"
    /\ prev["size.height"] = Percent(Fin(-1))
    /\ style["size.height"] = Percent(Fin(-1))
    /\ ret.dimension = [value |-> Fin(-1), unit |-> "Percent"]

\* C17: setters are idempotent.  After a setter has been called with a
\* non-null style pointer, calling it again with the same arguments returns
\* the status the first call returned and leaves the style as the first call
\* left it.
C17_SetterIdempotent ==
    /\ Called("style_value_prop_setter")
       => LET again == style_value_prop_setter(call.prop, StylePtr, call.value, call.unit)
          IN  again.ret = ret.code /\ again.style = style
    /\ Called("TaffyStyle_SetAspectRatio")
       => LET again == TaffyStyle_SetAspectRatio(StylePtr, call.value)
          IN  again.ret = ret.code /\ again.style = style
    /\ Called("TaffyStyle_SetMargin")
       => LET again == TaffyStyle_SetMargin(StylePtr, call.edge,
                                            TaffyDimension_from_raw(call.unit, call.value))
          IN  again.ret = ret.code /\ again.style = style
    /\ Called("TaffyStyle_SetGrid")
       => LET again == TaffyStyle_SetGrid(call.prop, StylePtr, call.placement)
          IN  again.ret = ret.code /\ again.style = style
    /\ Called("enum_prop_setter")
       => LET again == enum_prop_setter(call.prop, StylePtr, call.value)
          IN  again.ret = ret.code /\ again.style = style

C17_Witness ==
    /\ Called("TaffyStyle_SetMargin")
    /\ call.edge = "Vertical"
    /\ ret.code = "Ok"
    /\ prev["margin.top"] # style["margin.top"]
    /\ prev["margin.top"] # StyleDefault["margin.top"]

\* C18: the last successful write wins.  Between calls nothing changes; after
\* a call of a dimension setter or of TaffyStyle_SetMargin with a non-null
\* style pointer, the getter of every dimension field returns the encoding of
\* the call's argument if the call returned Ok and names the field, and
\* otherwise what it returned before the call; any other call leaves what
\* the dimension getters return as it was.  From the initial style on, each
\* getter therefore returns the argument of the most recent successful set
\* of its field, or the field's initial value.
C18_LastSuccessfulWriteWins ==
    /\ call = Idle => style = prev
    /\ Called("style_value_prop_setter") \/ Called("TaffyStyle_SetMargin")
       => \A p \in DimProps :
              style_value_prop_getter(p, StylePtr).ret =
                  IF p \in SetFields(call, ret.code)
                  THEN WireOf(ExpectedNative(call.unit, call.value))
                  ELSE WireOf(prev[p])
    /\ \/ call.op \in GetterOps \cup {"TaffyStyle_SetAspectRatio", "TaffyStyle_SetGrid"}
       \/ CalledNull
       => \A p \in DimProps : style_value_prop_getter(p, StylePtr).ret = WireOf(prev[p])

\* a failed set after a successful one of the same field
C18_Witness ==
    /\ Called("style_value_prop_setter")
    /\ call.prop = "padding.left"
    /\ call.unit = "Auto"
    /\ ret.code = "InvalidAuto"
    /\ prev["padding.left"] = Percent(Fin(1))
    /\ style_value_prop_getter("padding.left", StylePtr).ret = [value |-> Fin(1), unit |-> "Percent"]

\* C19: frame of a write.  A single-field setter that returned Ok has left
\* every field of the style but its own as it was; a TaffyStyle_SetMargin that
\* returned Ok has assigned the converted value to the margin edges its
\* selector names (Top, Bottom, Left, Right: that edge; Vertical: top and
\* bottom; Horizontal: left and right; All: the four) and has left every other
\* field, margin or not, as it was.
C19_WriteFrame ==
    /\ /\ \/ Called("style_value_prop_setter")
          \/ Called("TaffyStyle_SetGrid")
          \/ Called("enum_prop_setter")
       /\ ret.code = "Ok"
       => \A f \in StyleFields \ {call.prop} : style[f] = prev[f]
    /\ Called("TaffyStyle_SetAspectRatio") /\ ret.code = "Ok"
       => \A f \in StyleFields \ {"aspect_ratio"} : style[f] = prev[f]
    /\ Called("TaffyStyle_SetMargin") /\ ret.code = "Ok"
       => /\ \A f \in EdgeTargets(call.edge) :
                 style[f] = ExpectedNative(call.unit, call.value)
          /\ \A f \in StyleFields \ EdgeTargets(call.edge) : style[f] = prev[f]

C19_Witness ==
    /\ Called("TaffyStyle_SetMargin")
    /\ call.edge = "Horizontal"
    /\ ret.code = "Ok"
    /\ prev["margin.top"] # StyleDefault["margin.top"]
    /\ style["margin.top"] = prev["margin.top"]
    /\ style["margin.left"] # prev["margin.left"]
    /\ style["margin.right"] # prev["margin.right"]

\* C20: the range of the units a getter returns.  In every state reached by
\* calls on the style, a dimension getter called with a non-null style pointer
\* returns a unit of its field's accepting set: Length, Percent or Auto, for
\* a padding, border or gap field never Auto, and with the unit Auto the
\* value 0.
C20_GetterTagRange ==
    Called("style_value_prop_getter") =>
        /\ ret.dimension.unit \in ClassAccepts(call.prop)
        /\ ret.dimension.unit \in {"Length", "Percent", "Auto"}
        /\ call.prop \in PaddingProps \cup BorderProps \cup GapProps
           => ret.dimension.unit # "Auto"
        /\ ret.dimension.unit = "Auto" => ret.dimension.value = Fin(0)

\* a margin edge read back after it was set to Auto
C20_Witness ==
    /\ Called("style_value_prop_getter")
    /\ call.prop = "margin.left"
    /\ style["margin.left"] = Auto
    /\ style["margin.top"] = Percent(NaN)
    /\ ret.dimension = [value |-> Fin(0), unit |-> "Auto"]

\* C21: the optional alignment getters.  An alignment getter called with a
\* non-null style pointer returns 0 when its field is not set and the
\* discriminant of the stored variant when it is set; a returned 0 therefore
\* stands for "not set" or for the variant whose discriminant is 0.
C21_OptionalAlignmentGetter ==
    Called("option_enum_prop_getter") =>
        /\ style = prev
        /\ prev[call.prop] = None => ret.i32 = 0
        /\ \A i \in 1 .. Len(AlignEnum(call.prop)) :
               prev[call.prop] = Some(AlignEnum(call.prop)[i]) => ret.i32 = i - 1
        /\ ret.i32 = 0 =>
               \/ prev[call.prop] = None
               \/ prev[call.prop] = Some(AlignEnum(call.prop)[1])

\* a field set to the variant of discriminant 0 reads as 0, like a field not set
C21_Witness ==
    /\ Called("option_enum_prop_getter")
    /\ call.prop = "align_self"
    /\ prev["align_self"] = Some("Start")
    /\ ret.i32 = 0

====
